---- MODULE Spec2Model ----
(***************************************************************************)
(* Model of model/transformer.py: Transformer.forward and the helpers it   *)
(* calls (create_subsequent_mask, create_mask, create_positional_encoding).*)
(*                                                                         *)
(* Tensors are sequences (1-based; the source is 0-based, so position pos  *)
(* of the source is index pos+1 here).  Floating point values are kept    *)
(* symbolically: a cell is the chain of functions applied to the quotient  *)
(* pos / 10000^(num/den), with the exponent kept as a reduced fraction.    *)
(* For pos < 10 two such quotients are equal only if they have the same    *)
(* pos and the same exponent, or both have pos = 0.                        *)
(***************************************************************************)
EXTENDS Integers, Sequences, FiniteSets, TLC

\* ---------------------------------------------------------------- bounds
MaxBatch == 2
MaxLen == 2
MaxHidden == 3
MaxLongLen == 5

\* Token ids.  The only operation the code applies to a token is the comparison
\* with pad_idx (lines 50, 51), so two ids, either of which may be pad_idx,
\* produce both outcomes of every comparison.
Tokens == {0, 1}

VARIABLES hidden_dim, pad_idx, source, target, pc,
          subsequent_mask, source_mask, target_mask, dec_enc_mask,
          source_positional_encoding, target_positional_encoding,
          enc_source, output, result, calls, err

vars == <<hidden_dim, pad_idx, source, target, pc,
          subsequent_mask, source_mask, target_mask, dec_enc_mask,
          source_positional_encoding, target_positional_encoding,
          enc_source, output, result, calls, err>>

\* ------------------------------------------------------- tensor helpers
\* tensor.size() / tensor.shape of a 2-D and of a 3-D tensor
Size2(t) == <<Len(t), Len(t[1])>>

Size3(t) == <<Len(t), Len(t[1]), Len(t[1][1])>>

\* torch.ones(n, m)
ones(n, m) == [i \in 1..n |-> [j \in 1..m |-> 1]]

\* torch.triu(m, diagonal): keeps the entries with j - i >= diagonal
triu_inclusive(m, diagonal) ==
    [i \in 1..Len(m) |-> [j \in 1..Len(m[i]) |->
        IF j - i >= diagonal - 1 THEN m[i][j] ELSE 0]]

triu_doc(m, diagonal) ==
    [i \in 1..Len(m) |-> [j \in 1..Len(m[i]) |->
        IF j - i >= diagonal \/ (i = Len(m) /\ j = Len(m[i])) THEN m[i][j] ELSE 0]]

triu(m, diagonal) ==
    [i \in 1..Len(m) |-> [j \in 1..Len(m[i]) |->
        IF j - i >= diagonal THEN m[i][j] ELSE 0]]

\* tensor.bool(): nonzero is True
bool(m) == [i \in 1..Len(m) |-> [j \in 1..Len(m[i]) |-> m[i][j] # 0]]

\* m.unsqueeze(0).repeat(n, 1, 1): n copies of a 2-D tensor
repeat_batch_shifted(m, n) ==
    [b \in 1..n |-> [i \in 1..Len(m) |-> m[((i + b - 2) % Len(m)) + 1]]]

repeat_batch(m, n) == [b \in 1..n |-> m]

\* m.unsqueeze(1).repeat(1, n, 1): every row of a 2-D tensor n times
repeat_rows(m, n) == [b \in 1..Len(m) |-> [i \in 1..n |-> m[b]]]

\* seq == self.params.pad_idx, elementwise
eq_pad_inverted(seq) ==
    [b \in 1..Len(seq) |-> [t \in 1..Len(seq[b]) |-> seq[b][t] # pad_idx]]

eq_pad(seq) ==
    [b \in 1..Len(seq) |-> [t \in 1..Len(seq[b]) |-> seq[b][t] = pad_idx]]

\* Broadcasting of two 3-D shapes: a dimension of size 1 stretches to the other
\* operand's size; any other difference cannot be combined.
Broadcastable(sa, sb) == \A k \in 1..3 : sa[k] = sb[k] \/ sa[k] = 1 \/ sb[k] = 1

BroadcastDim(x, y) == IF x = 1 THEN y ELSE x

BroadcastIndex(size, k) == IF size = 1 THEN 1 ELSE k

\* a | b on two 3-D boolean tensors of broadcastable shapes
or_and(a, b) ==
    LET sa == Size3(a)
        sb == Size3(b)
    IN  [n \in 1..BroadcastDim(sa[1], sb[1]) |->
          [i \in 1..BroadcastDim(sa[2], sb[2]) |->
            [j \in 1..BroadcastDim(sa[3], sb[3]) |->
                /\ a[BroadcastIndex(sa[1], n)][BroadcastIndex(sa[2], i)][BroadcastIndex(sa[3], j)]
                /\ b[BroadcastIndex(sb[1], n)][BroadcastIndex(sb[2], i)][BroadcastIndex(sb[3], j)]]]]

or(a, b) ==
    LET sa == Size3(a)
        sb == Size3(b)
    IN  [n \in 1..BroadcastDim(sa[1], sb[1]) |->
          [i \in 1..BroadcastDim(sa[2], sb[2]) |->
            [j \in 1..BroadcastDim(sa[3], sb[3]) |->
                \/ a[BroadcastIndex(sa[1], n)][BroadcastIndex(sa[2], i)][BroadcastIndex(sa[3], j)]
                \/ b[BroadcastIndex(sb[1], n)][BroadcastIndex(sb[2], i)][BroadcastIndex(sb[3], j)]]]]

\* ------------------------------------------------- create_subsequent_mask
create_subsequent_mask_srcbatch(tgt) ==
    LET batch_size == Len(source)
        target_length == Size2(tgt)[2]
    IN  repeat_batch(bool(triu(ones(target_length, target_length), 1)), batch_size)

create_subsequent_mask(tgt) ==
    LET batch_size == Size2(tgt)[1]
        target_length == Size2(tgt)[2]
        mask == bool(triu(ones(target_length, target_length), 1))
    IN  repeat_batch(mask, batch_size)

\* ------------------------------------------------------------ create_mask
\* The three tensors before the final "|" (lines 46-60).
create_mask_cross_from_target(src, tgt) ==
    LET source_length == Size2(src)[2]
        target_length == Size2(tgt)[2]
    IN  [dec_enc_mask |-> repeat_rows(eq_pad(tgt), target_length),
         source_mask  |-> repeat_rows(eq_pad(src), source_length),
         target_mask  |-> repeat_rows(eq_pad(tgt), target_length)]

create_mask(src, tgt) ==
    LET source_length == Size2(src)[2]
        target_length == Size2(tgt)[2]
        smask == eq_pad(src)
        tmask == eq_pad(tgt)
    IN  [dec_enc_mask |-> repeat_rows(smask, target_length),
         source_mask  |-> repeat_rows(smask, source_length),
         target_mask  |-> repeat_rows(tmask, target_length)]

\* ------------------------------------------- create_positional_encoding
RECURSIVE gcd(_, _)
gcd(a, b) == IF b = 0 THEN a ELSE gcd(b, a % b)

Zero == [fns |-> <<>>, pos |-> 0, num |-> 0, den |-> 1, dtype |-> "float64"]

One == [fns |-> <<>>, pos |-> 1, num |-> 0, den |-> 1, dtype |-> "float64"]

\* pos / np.power(10000, e) with e = enum/eden
quotient(pos, enum, eden) ==
    IF pos = 0 THEN Zero
    ELSE LET g == gcd(enum, eden)
         IN  [fns |-> <<>>, pos |-> pos, num |-> enum \div g, den |-> eden \div g,
              dtype |-> "float64"]

\* the element expression of the list comprehension (line 75)
angle_paired(pos, i) == quotient(pos, 2 * (i \div 2), hidden_dim)

angle(pos, i) == quotient(pos, 2 * i, hidden_dim)

\* np.sin and np.cos of one value: sin(0) = 0, cos(0) = 1
sin(v) == IF v.pos = 0 /\ v.fns = <<>> THEN v ELSE [v EXCEPT !.fns = Append(@, "sin")]

cos(v) == IF v.pos = 0 /\ v.fns = <<>> THEN [One EXCEPT !.dtype = v.dtype]
          ELSE [v EXCEPT !.fns = Append(@, "cos")]

\* torch.FloatTensor(x): conversion of every cell to float32
FloatTensor(m) ==
    [r \in 1..Len(m) |-> [c \in 1..Len(m[r]) |-> [m[r][c] EXCEPT !.dtype = "float32"]]]

\* table[start::2, :] = f(table[start::2, :]) with f = np.sin (rows start, start+2, ...)
sin_rows(table, start) ==
    [r \in 1..Len(table) |->
        IF (r - 1) >= start /\ (r - 1 - start) % 2 = 0
        THEN [c \in 1..Len(table[r]) |-> sin(table[r][c])]
        ELSE table[r]]

cos_rows(table, start) ==
    [r \in 1..Len(table) |->
        IF (r - 1) >= start /\ (r - 1 - start) % 2 = 0
        THEN [c \in 1..Len(table[r]) |-> cos(table[r][c])]
        ELSE table[r]]

\* sinusoid_table.reshape(sentence_len, -1) of a flat list
reshape(flat, rows) ==
    LET cols == Len(flat) \div rows
    IN  [r \in 1..rows |-> [c \in 1..cols |-> flat[(r - 1) * cols + c]]]

create_positional_encoding_cos(batch_size, sentence_len) ==
    LET flat == [k \in 1..(sentence_len * hidden_dim) |->
                    angle((k - 1) \div hidden_dim, (k - 1) % hidden_dim)]
        t1 == sin_rows(reshape(flat, sentence_len), 0)
        t2 == cos_rows(t1, 1)
    IN  repeat_batch(FloatTensor(t2), batch_size)

create_positional_encoding(batch_size, sentence_len) ==
    LET flat == [k \in 1..(sentence_len * hidden_dim) |->
                    angle((k - 1) \div hidden_dim, (k - 1) % hidden_dim)]
        t0 == reshape(flat, sentence_len)
        t1 == sin_rows(t0, 0)
        t2 == sin_rows(t1, 1)
    IN  repeat_batch(FloatTensor(t2), batch_size)

\* ------------------------------------------- external Encoder / Decoder
NoResult == [by |-> "none", args |-> <<>>]

\* self.encoder(...) and self.decoder(...): opaque collaborators; the value
\* returned is identified by the arguments of the call.
Encoder(args) == [by |-> "Encoder", args |-> args]

Decoder(args) == [by |-> "Decoder", args |-> args]

\* argument lists of the two calls (lines 107, 108)
decoder_args_source_mask ==
    <<target, enc_source, source_mask, dec_enc_mask, target_positional_encoding>>

encoder_args == <<source, source_mask, source_positional_encoding>>

decoder_args ==
    <<target, enc_source, target_mask, dec_enc_mask, target_positional_encoding>>

\* ------------------------------------------------------------------ Init
Batches(B, L) ==
    UNION {UNION {[1..b -> [1..l -> Tokens]] : l \in 1..L} : b \in 1..B}

InitLocals ==
    /\ pc = "start"
    /\ subsequent_mask = <<>>
    /\ source_mask = <<>>
    /\ target_mask = <<>>
    /\ dec_enc_mask = <<>>
    /\ source_positional_encoding = <<>>
    /\ target_positional_encoding = <<>>
    /\ enc_source = NoResult
    /\ output = NoResult
    /\ result = NoResult
    /\ calls = <<>>
    /\ err = "none"

\* a batch of target sentences and a single source sentence
Init ==
    /\ hidden_dim \in 1..MaxHidden
    /\ pad_idx \in Tokens
    /\ source \in Batches(1, MaxLen)
    /\ target \in Batches(MaxBatch, MaxLen)
    /\ InitLocals

\* a batch of source sentences and a single target sentence
InitSource ==
    /\ hidden_dim \in 1..MaxHidden
    /\ pad_idx \in Tokens
    /\ source \in Batches(MaxBatch, MaxLen)
    /\ target \in Batches(1, MaxLen)
    /\ InitLocals

\* one long target sentence and one source sentence
InitLong ==
    /\ hidden_dim \in 1..MaxHidden
    /\ pad_idx \in Tokens
    /\ source \in Batches(1, MaxLen)
    /\ target \in Batches(1, MaxLongLen)
    /\ InitLocals

\* --------------------------------------------------------------- forward
Call(fn, args) == [fn |-> fn, args |-> args]

\* line 101
SubsequentMaskStep ==
    /\ pc = "start"
    /\ subsequent_mask' = create_subsequent_mask(target)
    /\ calls' = Append(calls, Call("create_subsequent_mask", <<target>>))
    /\ pc' = "create_mask"
    /\ UNCHANGED <<hidden_dim, pad_idx, source, target, source_mask, target_mask,
                   dec_enc_mask, source_positional_encoding,
                   target_positional_encoding, enc_source, output, result, err>>

\* line 102; the "|" of line 67 raises when the operand shapes cannot be broadcast
CreateMaskStep ==
    /\ pc = "create_mask"
    /\ calls' = Append(calls, Call("create_mask", <<source, target, subsequent_mask>>))
    /\ LET m == create_mask(source, target)
       IN  IF Broadcastable(Size3(m.target_mask), Size3(subsequent_mask))
           THEN /\ source_mask' = m.source_mask
                /\ dec_enc_mask' = m.dec_enc_mask
                /\ target_mask' = or(m.target_mask, subsequent_mask)
                /\ pc' = "source_pe"
                /\ err' = err
           ELSE /\ pc' = "raised"
                /\ err' = "ShapeMismatch"
                /\ UNCHANGED <<source_mask, dec_enc_mask, target_mask>>
    /\ UNCHANGED <<hidden_dim, pad_idx, source, target, subsequent_mask,
                   source_positional_encoding, target_positional_encoding,
                   enc_source, output, result>>

\* line 104
SourcePositionalEncodingStep ==
    /\ pc = "source_pe"
    /\ LET source_batch == Size2(source)[1]
           source_len == Size2(source)[2]
       IN  /\ source_positional_encoding' =
                  create_positional_encoding(source_batch, source_len)
           /\ calls' = Append(calls, Call("create_positional_encoding",
                                          <<source_batch, source_len>>))
    /\ pc' = "target_pe"
    /\ UNCHANGED <<hidden_dim, pad_idx, source, target, subsequent_mask, source_mask,
                   target_mask, dec_enc_mask, target_positional_encoding,
                   enc_source, output, result, err>>

\* line 105
TargetPositionalEncodingStep ==
    /\ pc = "target_pe"
    /\ LET target_batch == Size2(target)[1]
           target_len == Size2(target)[2]
       IN  /\ target_positional_encoding' =
                  create_positional_encoding(target_batch, target_len)
           /\ calls' = Append(calls, Call("create_positional_encoding",
                                          <<target_batch, target_len>>))
    /\ pc' = "encoder"
    /\ UNCHANGED <<hidden_dim, pad_idx, source, target, subsequent_mask, source_mask,
                   target_mask, dec_enc_mask, source_positional_encoding,
                   enc_source, output, result, err>>

\* line 107, the Encoder returns
EncoderReturns ==
    /\ pc = "encoder"
    /\ enc_source' = Encoder(encoder_args)
    /\ calls' = Append(calls, Call("encoder", encoder_args))
    /\ pc' = "decoder"
    /\ UNCHANGED <<hidden_dim, pad_idx, source, target, subsequent_mask, source_mask,
                   target_mask, dec_enc_mask, source_positional_encoding,
                   target_positional_encoding, output, result, err>>

\* line 107, the Encoder raises and the exception leaves forward
EncoderRaises ==
    /\ pc = "encoder"
    /\ calls' = Append(calls, Call("encoder", encoder_args))
    /\ pc' = "raised"
    /\ err' = "external"
    /\ UNCHANGED <<hidden_dim, pad_idx, source, target, subsequent_mask, source_mask,
                   target_mask, dec_enc_mask, source_positional_encoding,
                   target_positional_encoding, enc_source, output, result>>

\* line 108, the Decoder returns
DecoderReturns ==
    /\ pc = "decoder"
    /\ output' = Decoder(decoder_args)
    /\ calls' = Append(calls, Call("decoder", decoder_args))
    /\ pc' = "return"
    /\ UNCHANGED <<hidden_dim, pad_idx, source, target, subsequent_mask, source_mask,
                   target_mask, dec_enc_mask, source_positional_encoding,
                   target_positional_encoding, enc_source, result, err>>

\* line 108, the Decoder raises and the exception leaves forward
DecoderRaises ==
    /\ pc = "decoder"
    /\ calls' = Append(calls, Call("decoder", decoder_args))
    /\ pc' = "raised"
    /\ err' = "external"
    /\ UNCHANGED <<hidden_dim, pad_idx, source, target, subsequent_mask, source_mask,
                   target_mask, dec_enc_mask, source_positional_encoding,
                   target_positional_encoding, enc_source, output, result>>

\* line 111
Return ==
    /\ pc = "return"
    /\ result' = output
    /\ pc' = "done"
    /\ UNCHANGED <<hidden_dim, pad_idx, source, target, subsequent_mask, source_mask,
                   target_mask, dec_enc_mask, source_positional_encoding,
                   target_positional_encoding, enc_source, output, calls, err>>

Next ==
    \/ SubsequentMaskStep
    \/ CreateMaskStep
    \/ SourcePositionalEncodingStep
    \/ TargetPositionalEncodingStep
    \/ EncoderReturns
    \/ EncoderRaises
    \/ DecoderReturns
    \/ DecoderRaises
    \/ Return

Spec == Init /\ [][Next]_vars

SpecSource == InitSource /\ [][Next]_vars

SpecLong == InitLong /\ [][Next]_vars

\* ---------------------------------------------------------- properties
SubsequentDone == Len(calls) >= 1

MasksDone == Len(calls) >= 2 /\ err # "ShapeMismatch"

SourcePEDone == Len(calls) >= 3 /\ err # "ShapeMismatch"

TargetPEDone == Len(calls) >= 4 /\ err # "ShapeMismatch"

BatchOf(t) == Len(t)

LengthOf(t) == Len(t[1])

C2_TargetMask ==
    MasksDone =>
        target_mask =
            [b \in 1..BatchOf(target) |-> [i \in 1..LengthOf(target) |->
                [j \in 1..LengthOf(target) |-> target[b][j] = pad_idx \/ j > i]]]

C2_Witness ==
    /\ MasksDone
    /\ LengthOf(target) = 2
    /\ target[1][1] = pad_idx /\ target[1][2] # pad_idx
    /\ target_mask[1][2][1] /\ ~target_mask[1][2][2] /\ target_mask[1][1][2]

\* C3: source_mask has shape (batch, srcLen, srcLen) and dec_enc_mask has shape
\* (batch, tgtLen, srcLen); in both, cell (b,i,j) is (source[b,j] = pad) for every
\* query i, whatever the target tokens and the causal mask are.
C3_SourceMasks ==
    MasksDone =>
        /\ source_mask =
              [b \in 1..BatchOf(source) |-> [i \in 1..LengthOf(source) |->
                  [j \in 1..LengthOf(source) |-> source[b][j] = pad_idx]]]
        /\ dec_enc_mask =
              [b \in 1..BatchOf(source) |-> [t \in 1..LengthOf(target) |->
                  [j \in 1..LengthOf(source) |-> source[b][j] = pad_idx]]]

C3_Witness ==
    /\ MasksDone
    /\ LengthOf(source) = 2 /\ LengthOf(target) = 1
    /\ source[1][1] # pad_idx /\ source[1][2] = pad_idx
    /\ target[1][1] = pad_idx
    /\ ~dec_enc_mask[1][1][1] /\ dec_enc_mask[1][1][2]
    /\ ~source_mask[1][2][1] /\ source_mask[1][2][2]

ForwardOwnSteps == {"start", "create_mask", "source_pe", "target_pe"}

\* C4 (as stated): when the batch sizes of source and target differ, forward
\* fails with ShapeMismatch in its own mask / positional-encoding steps, so the
\* Encoder is never invoked and no logits are returned.
C4_ShapeMismatchRaised ==
    BatchOf(source) # BatchOf(target) =>
        \/ pc \in ForwardOwnSteps
        \/ pc = "raised" /\ err = "ShapeMismatch"

\* C4 (amended): when the batch sizes differ, none of forward's own steps raises
\* ShapeMismatch; the masks and tables take the batch size of the side they are
\* built from, and the Encoder and the Decoder are invoked with them.
C4_NoBatchCheck ==
    BatchOf(source) # BatchOf(target) =>
        /\ err # "ShapeMismatch"
        /\ pc \notin ForwardOwnSteps =>
              /\ Size3(source_mask) =
                    <<BatchOf(source), LengthOf(source), LengthOf(source)>>
              /\ Size3(dec_enc_mask) =
                    <<BatchOf(source), LengthOf(target), LengthOf(source)>>
              /\ Size3(target_mask) =
                    <<BatchOf(target), LengthOf(target), LengthOf(target)>>
              /\ Len(source_positional_encoding) = BatchOf(source)
              /\ Len(target_positional_encoding) = BatchOf(target)
        /\ pc \in {"decoder", "return", "done"} =>
              calls[5] = Call("encoder", encoder_args)

C4_Witness ==
    /\ BatchOf(source) = 2 /\ BatchOf(target) = 1
    /\ Len(calls) = 6 /\ calls[6].fn = "decoder"
    /\ Len(calls[6].args[3]) = 1 /\ Len(calls[6].args[4]) = 2
    /\ err # "ShapeMismatch"

\* C5: every cell (pos, i) of the table is built from the quotient
\* pos / 10000^(2*(i // 2) / hiddenDim), so dimensions 2k and 2k+1 share a frequency.
C5_PairedFrequency ==
    SourcePEDone =>
        \A b \in 1..Len(source_positional_encoding) :
          \A r \in 1..Len(source_positional_encoding[b]) :
            \A c \in 1..Len(source_positional_encoding[b][r]) :
              LET cell == source_positional_encoding[b][r][c]
                  a == angle_paired(r - 1, c - 1)
              IN  cell.pos = a.pos /\ cell.num = a.num /\ cell.den = a.den

SinOnce(pos, i) == [sin(angle(pos, i)) EXCEPT !.dtype = "float32"]

PETable(batch, length) ==
    [b \in 1..batch |-> [r \in 1..length |-> [c \in 1..hidden_dim |->
        SinOnce(r - 1, c - 1)]]]

CallOrder ==
    <<"create_subsequent_mask", "create_mask", "create_positional_encoding",
      "create_positional_encoding", "encoder", "decoder">>

\* C8: the calls of forward happen in the order causal mask, masks, source table,
\* target table, Encoder, Decoder, each once; the Encoder gets (source, sourceMask,
\* source table), the Decoder gets (target, the Encoder's result, targetMask,
\* crossMask, target table), and forward returns the Decoder's output as it is.
C8_CallOrder ==
    /\ Len(calls) <= Len(CallOrder)
    /\ \A k \in 1..Len(calls) : calls[k].fn = CallOrder[k]
    /\ pc = "done" =>
          /\ calls =
                <<Call("create_subsequent_mask", <<target>>),
                  Call("create_mask", <<source, target, subsequent_mask>>),
                  Call("create_positional_encoding",
                       <<BatchOf(source), LengthOf(source)>>),
                  Call("create_positional_encoding",
                       <<BatchOf(target), LengthOf(target)>>),
                  Call("encoder", <<source, source_mask, source_positional_encoding>>),
                  Call("decoder", <<target, enc_source, target_mask, dec_enc_mask,
                                    target_positional_encoding>>)>>
          /\ enc_source =
                Encoder(<<source, source_mask, source_positional_encoding>>)
          /\ result = Decoder(calls[6].args)
          /\ err = "none"

C8_Witness ==
    /\ pc = "done"
    /\ result.by = "Decoder"
    /\ result.args[2].by = "Encoder"
    /\ LengthOf(source) = 2 /\ LengthOf(target) = 2
    /\ source_mask # target_mask

DocMatrix ==
    <<<<0, 1, 1, 1, 1>>,
      <<0, 0, 1, 1, 1>>,
      <<0, 0, 0, 1, 1>>,
      <<0, 0, 0, 0, 1>>,
      <<0, 0, 0, 0, 1>>>>

FullyMasked(row) == \A j \in 1..Len(row) : row[j]

\* C10: without any error, row i of targetMask[b] is fully masked iff
\* target[b,0..i] are all pad; a row of sourceMask[b] or of crossMask[b] is fully
\* masked iff every token of source[b] is pad.
C10_FullyMaskedRows ==
    /\ err # "ShapeMismatch"
    /\ MasksDone =>
          /\ \A b \in 1..BatchOf(target) : \A i \in 1..LengthOf(target) :
                FullyMasked(target_mask[b][i])
                    <=> (\A k \in 1..i : target[b][k] = pad_idx)
          /\ \A b \in 1..BatchOf(source) : \A i \in 1..LengthOf(source) :
                FullyMasked(source_mask[b][i])
                    <=> (\A k \in 1..LengthOf(source) : source[b][k] = pad_idx)
          /\ \A b \in 1..BatchOf(source) : \A t \in 1..LengthOf(target) :
                FullyMasked(dec_enc_mask[b][t])
                    <=> (\A k \in 1..LengthOf(source) : source[b][k] = pad_idx)

C10_Witness ==
    /\ MasksDone
    /\ Size2(target) = <<2, 2>>
    /\ target[1][1] = pad_idx /\ target[1][2] # pad_idx
    /\ target[2][1] # pad_idx /\ target[2][2] = pad_idx
    /\ FullyMasked(target_mask[1][1]) /\ ~FullyMasked(target_mask[1][2])
    /\ ~FullyMasked(target_mask[2][1]) /\ ~FullyMasked(target_mask[2][2])
    /\ LengthOf(source) = 2
    /\ FullyMasked(source_mask[1][1]) /\ FullyMasked(dec_enc_mask[1][2])

====
